---- MODULE Spec2Model ----
(***************************************************************************)
(* Model of the UserList view controller (src/src/components/UserList.tsx) *)
(* of bank-account-ui-service: the view state held in React state hooks,   *)
(* the fetch-issuing effect, the settle paths of loadUsers, the click      *)
(* handlers of the pagination controls and the retry button, and the pure  *)
(* page-window function renderPaginationItems; of the data client          *)
(* (fetchUsers, fetchAccountsByUserId in src/src/types/index.ts); and of   *)
(* the mock data helpers of the test suites (src/unnamed/part_000).        *)
(*                                                                         *)
(* Scheduling: a click handler, the re-render it causes and the passive    *)
(* effect of that render run in one task of the UI event loop (discrete    *)
(* events flush their effects synchronously).  The handler and the effect   *)
(* are separate steps of the model, but no user event and no fetch         *)
(* completion is taken between them.                                        *)
(***************************************************************************)
EXTENDS Integers, Sequences, FiniteSets

VARIABLES
    users,          \* useState<User[]>([])          : sequence of userIds
    loading,        \* useState(true)
    error,          \* useState<string | null>(null)
    currentPage,    \* useState(0)
    totalPages,     \* useState(0)
    totalElements,  \* useState(0)
    pending,        \* fetchUsers calls awaiting their result, in issue order
    fetchCount,     \* number of fetchUsers calls made so far
    effectPending,  \* the committed render changed the [currentPage] dependency
    lastEvent,      \* history: the step taken last
    pageChanges,    \* history: accepted page-change requests
    retries,        \* history: retry clicks
    lastSettled,    \* history: page and outcome of the fetch that settled last
    lastResponse,   \* history: the PagedResponse that resolved last
    pageMoves,      \* history: accepted page-change requests for another page
    selectedUserId, \* prop selectedUserId: string | null
    selectCalls,    \* the arguments of the onUserSelect calls made so far
    entries,        \* the user entries of the last render of the list
    clientCall,     \* data client: the call awaiting its HTTP response
    requests,       \* data client: the HTTP requests sent so far
    callResult,     \* data client: how the last call ended
    consoleLines,   \* the lines written to the console so far
    mockPage,       \* mock data: the page argument of the next getMockUsersPage
    mockSize,       \* mock data: the size argument of the getMockUsersPage calls
    mockResult,     \* mock data: the value of the last getMockUsersPage call
    collected,      \* mock data: the contents returned so far, concatenated
    items,          \* output of the last renderPaginationItems call
    rendered        \* TRUE once renderPaginationItems has been applied

vars == <<users, loading, error, currentPage, totalPages, totalElements,
          pending, fetchCount, effectPending, lastEvent, pageChanges,
          retries, lastSettled, lastResponse, pageMoves, selectedUserId,
          selectCalls, entries, clientCall, requests, callResult, consoleLines,
          mockPage, mockSize, mockResult, collected, items, rendered>>

viewState == <<users, loading, error, currentPage, totalPages, totalElements>>

history == <<pageChanges, retries, lastSettled, lastResponse, pageMoves>>

selection == <<selectedUserId, selectCalls, entries>>

client == <<clientCall, requests, callResult, consoleLines>>

mock == <<mockPage, mockSize, mockResult, collected>>

-----------------------------------------------------------------------------
(* Bounds *)

MaxTotalPages == 7      \* largest totalPages a response reports

MaxTotalElements == 1   \* largest totalElements a response reports

MaxFetches == 3         \* fetchUsers calls per behaviour

MaxPageChanges == 2     \* handlePageChange calls per behaviour

MaxResponsePage == 1    \* largest page index a response reports

MaxSelects == 2         \* onUserSelect calls per behaviour

MaxCalls == 2           \* data-client calls per behaviour

MaxMockPage == 3        \* largest page asked of getMockUsersPage

MaxMockSize == 25       \* largest size asked of getMockUsersPage

-----------------------------------------------------------------------------
(* Program constants and input domains *)

pageSize == 20

maxVisiblePages == 5

Null == "<null>"

FallbackMessage == "Failed to load users"

Max(a, b) == IF a >= b THEN a ELSE b

Min(a, b) == IF a <= b THEN a ELSE b

\* The contents a response may carry (User = { userId }).
Contents == { <<>>, <<"USER001">>, <<"USER001", "USER005">> }

\* The fields of PagedResponse<User> that loadUsers reads.
Responses ==
    [content : Contents, page : 0..MaxResponsePage,
     totalPages : 0..MaxTotalPages, totalElements : 0..MaxTotalElements]

\* The value of lastResponse while no fetch has resolved.
NoResponse ==
    [content |-> << >>, page |-> -1, totalPages |-> 0, totalElements |-> 0]

\* The value of mockResult until getMockUsersPage has been called.
NoPage ==
    [content |-> << >>, page |-> -1, size |-> 0, totalElements |-> 0,
     totalPages |-> 0, first |-> FALSE, last |-> FALSE]

\* The value of clientCall while no data-client call is awaiting a response.
NoCall == [fn |-> "none", page |-> -1, size |-> -1, userId |-> Null]

\* The value of callResult until a data-client call has ended.
NoResult == [outcome |-> "none", fn |-> "none", value |-> << >>, message |-> Null]

\* What fetchUsers may reject with: an Error carrying a message, or another value.
Rejections ==
    { [isError |-> TRUE,  message |-> "Failed to fetch users"],
      [isError |-> FALSE, message |-> "timeout"] }

-----------------------------------------------------------------------------
(* renderPaginationItems: the page-window function *)

\* Mutant of PageLink: onClick passes the 1-based label to handlePageChange.
PageLinkClickPassesLabel(i, c) ==
    [kind |-> "page", page |-> i + 1, label |-> i + 1, isActive |-> (i = c)]

\* Mutant of PageLink: isActive compares the 1-based label with currentPage.
PageLinkLabelActive(i, c) ==
    [kind |-> "page", page |-> i, label |-> i + 1, isActive |-> (i + 1 = c)]

\* <PaginationLink isActive={i === currentPage} onClick=handlePageChange(i)>{i + 1}
PageLink(i, c) ==
    [kind |-> "page", page |-> i, label |-> i + 1, isActive |-> (i = c)]

Ellipsis(k) == [kind |-> "ellipsis", key |-> k]

\* Mutant of AllPageItems: the loop stops one page early (i < totalPages - 1).
AllPageItemsShort(c, n) == [k \in 1..(n - 1) |-> PageLink(k - 1, c)]

\* if (totalPages <= maxVisiblePages) for (i = 0; i < totalPages; i++) push(link i)
AllPageItems(c, n) == [k \in 1..n |-> PageLink(k - 1, c)]

FirstPageItems(c, n) == << PageLink(0, c) >>

\* if (currentPage > 2) push(ellipsis1)
LeadingEllipsisItems(c, n) ==
    IF c > 2 THEN << Ellipsis("ellipsis1") >> ELSE << >>

\* Mutant of WindowStart: the lower clamp Math.max(1, ...) is missing.
WindowStartUnclamped(c, n) == c - 1

\* const start = Math.max(1, currentPage - 1)
WindowStart(c, n) == Max(1, c - 1)

WindowEnd(c, n) == Min(n - 1, c + 1)

\* The values i takes in: for (let i = start; i < end; i++)
\* (no value when end <= start)
WindowRange(c, n) ==
    [k \in 1..Max(0, WindowEnd(c, n) - WindowStart(c, n)) |->
         WindowStart(c, n) + k - 1]

\* if (i !== 0 && i !== totalPages - 1)
InsideWindow(i, n) == i # 0 /\ i # n - 1

WindowItems(c, n) ==
    LET kept == SelectSeq(WindowRange(c, n), LAMBDA i : InsideWindow(i, n))
    IN  [k \in 1..Len(kept) |-> PageLink(kept[k], c)]

\* Mutant of TrailingEllipsisItems: the test is currentPage < totalPages - 2.
TrailingEllipsisItemsWide(c, n) ==
    IF c < n - 2 THEN << Ellipsis("ellipsis2") >> ELSE << >>

\* if (currentPage < totalPages - 3) push(ellipsis2)
TrailingEllipsisItems(c, n) ==
    IF c < n - 3 THEN << Ellipsis("ellipsis2") >> ELSE << >>

\* Mutant of LastPageItems: the last control stands for page totalPages.
LastPageItemsOffByOne(c, n) ==
    IF n > 1 THEN << PageLink(n, c) >> ELSE << >>

\* if (totalPages > 1) push(link totalPages - 1)
LastPageItems(c, n) ==
    IF n > 1 THEN << PageLink(n - 1, c) >> ELSE << >>

renderPaginationItems(c, n) ==
    IF n <= maxVisiblePages
    THEN AllPageItems(c, n)
    ELSE FirstPageItems(c, n) \o LeadingEllipsisItems(c, n) \o WindowItems(c, n)
           \o TrailingEllipsisItems(c, n) \o LastPageItems(c, n)

-----------------------------------------------------------------------------
(* The pure-function specification: inputs drawn from bounded sets *)

PageInit ==
    /\ totalPages \in 0..MaxTotalPages
    /\ currentPage \in 0..MaxTotalPages
    /\ users = <<"USER001">>
    /\ loading = FALSE
    /\ error = Null
    /\ totalElements = 1
    /\ pending = << >>
    /\ fetchCount = 1
    /\ effectPending = FALSE
    /\ lastEvent = "resolved"
    /\ pageChanges = 0
    /\ retries = 0
    /\ lastSettled = [page |-> 0, outcome |-> "resolved"]
    /\ lastResponse = NoResponse
    /\ selectedUserId = Null
    /\ selectCalls = << >>
    /\ entries = << >>
    /\ pageMoves = 0
    /\ clientCall = NoCall
    /\ requests = << >>
    /\ callResult = NoResult
    /\ consoleLines = << >>
    /\ mockPage = 0
    /\ mockSize = pageSize
    /\ mockResult = NoPage
    /\ collected = << >>
    /\ items = << >>
    /\ rendered = FALSE

RenderItems ==
    /\ ~rendered
    /\ items' = renderPaginationItems(currentPage, totalPages)
    /\ rendered' = TRUE
    /\ UNCHANGED <<viewState, pending, fetchCount, effectPending, lastEvent, history,
                   selection, client, mock>>

PageNext == RenderItems

PageSpec == PageInit /\ [][PageNext]_vars

-----------------------------------------------------------------------------
(* The view: which of the four returns of the component body is taken *)

\* if (error): null and the empty string are falsy
ErrorShown == error # Null /\ error # ""

\* Mutant of View: the users.length === 0 return stands ahead of the
\* if (error) return.
ViewEmptyBeforeError ==
    IF loading THEN "Loading"
    ELSE IF Len(users) = 0 THEN "Empty"
    ELSE IF ErrorShown THEN "Error"
    ELSE "Populated"

\* Mutant of View: the if (loading) return is missing.
ViewWithoutLoading ==
    IF ErrorShown THEN "Error"
    ELSE IF Len(users) = 0 THEN "Empty"
    ELSE "Populated"

View ==
    IF loading THEN "Loading"
    ELSE IF ErrorShown THEN "Error"
    ELSE IF Len(users) = 0 THEN "Empty"
    ELSE "Populated"

\* <span>{totalElements} total users</span> in the Populated return
TotalUsersShown == totalElements

\* Mutant of PaginationShown: the totalPages > 1 test is missing.
PaginationShownAnyCount == View = "Populated"

\* Mutant of PaginationShown: the pagination is rendered ahead of the
\* users.length === 0 return.
PaginationShownWhenEmpty == ~loading /\ ~ErrorShown /\ totalPages > 1

\* {totalPages > 1 && (<Pagination> ... )} in the Populated return
PaginationShown == View = "Populated" /\ totalPages > 1

\* The pages that have a numbered control in the rendered pagination.
RenderedPages ==
    LET its == renderPaginationItems(currentPage, totalPages)
    IN  { its[k].page : k \in { j \in 1..Len(its) : its[j].kind = "page" } }

RemoveAt(s, i) == [k \in 1..(Len(s) - 1) |-> IF k < i THEN s[k] ELSE s[k + 1]]

-----------------------------------------------------------------------------
(* The view controller *)

\* Mutant of Init: the loading flag starts as useState(false).
InitNotLoading ==
    /\ users = << >>
    /\ loading = FALSE
    /\ error = Null
    /\ currentPage = 0
    /\ totalPages = 0
    /\ totalElements = 0
    /\ pending = << >>
    /\ fetchCount = 0
    /\ effectPending = TRUE
    /\ lastEvent = "mount"
    /\ pageChanges = 0
    /\ retries = 0
    /\ lastSettled = [page |-> -1, outcome |-> "none"]
    /\ lastResponse = NoResponse
    /\ selectedUserId = Null
    /\ selectCalls = << >>
    /\ entries = << >>
    /\ pageMoves = 0
    /\ clientCall = NoCall
    /\ requests = << >>
    /\ callResult = NoResult
    /\ consoleLines = << >>
    /\ mockPage = 0
    /\ mockSize = pageSize
    /\ mockResult = NoPage
    /\ collected = << >>
    /\ items = << >>
    /\ rendered = FALSE

\* The useState initial values; the first render's effect has yet to run.
Init ==
    /\ users = << >>
    /\ loading = TRUE
    /\ error = Null
    /\ currentPage = 0
    /\ totalPages = 0
    /\ totalElements = 0
    /\ pending = << >>
    /\ fetchCount = 0
    /\ effectPending = TRUE
    /\ lastEvent = "mount"
    /\ pageChanges = 0
    /\ retries = 0
    /\ lastSettled = [page |-> -1, outcome |-> "none"]
    /\ lastResponse = NoResponse
    /\ selectedUserId = Null
    /\ selectCalls = << >>
    /\ entries = << >>
    /\ pageMoves = 0
    /\ clientCall = NoCall
    /\ requests = << >>
    /\ callResult = NoResult
    /\ consoleLines = << >>
    /\ mockPage = 0
    /\ mockSize = pageSize
    /\ mockResult = NoPage
    /\ collected = << >>
    /\ items = << >>
    /\ rendered = FALSE

\* Mutant of loadUsersStart: the setError(null) call is missing.
loadUsersStartKeepsError(page) ==
    /\ loading' = TRUE
    /\ error' = error
    /\ pending' = Append(pending, [page |-> page, size |-> pageSize])
    /\ fetchCount' = fetchCount + 1

\* fetchUsers(page, pageSize)
FetchRequest(page) == [page |-> page, size |-> pageSize]

\* loadUsers up to its await: setLoading(true); setError(null); fetchUsers(page, pageSize)
loadUsersStart(page) ==
    /\ loading' = TRUE
    /\ error' = Null
    /\ pending' = Append(pending, FetchRequest(page))
    /\ fetchCount' = fetchCount + 1

\* The caps that keep the counters of a behaviour finite.
WithinBounds == fetchCount < MaxFetches /\ pageChanges < MaxPageChanges

\* Mutant of EffectAfterPageChange: the effect has no dependency list, so it
\* runs after every render.
EffectAfterEveryRender(page) == TRUE

\* Mutant of EffectAfterPageChange: the dependency list is empty, so the
\* effect runs on mount only.
EffectAfterPageChangeNever(page) == FALSE

\* useEffect(..., [currentPage]) runs after a render in which currentPage changed
EffectAfterPageChange(page) == page # currentPage

\* handlePageChange(page): setCurrentPage(page)
handlePageChange(page) ==
    /\ currentPage' = page
    /\ effectPending' = EffectAfterPageChange(page)
    /\ pageChanges' = pageChanges + 1
    /\ pageMoves' = pageMoves + (IF page # currentPage THEN 1 ELSE 0)
    /\ UNCHANGED <<users, loading, error, totalPages, totalElements,
                   pending, fetchCount, retries, lastSettled, lastResponse>>

\* useEffect(() => { loadUsers(currentPage); }, [currentPage])
UseEffect ==
    /\ effectPending
    /\ loadUsersStart(currentPage)
    /\ effectPending' = FALSE
    /\ lastEvent' = "effect"
    /\ UNCHANGED <<users, currentPage, totalPages, totalElements, history,
                   items, rendered, selection, client, mock>>

\* Mutant of setFromResponse: totalPages and totalElements are swapped.
setFromResponseSwapped(resp) ==
    /\ users' = resp.content
    /\ totalPages' = resp.totalElements
    /\ totalElements' = resp.totalPages

\* setUsers(userData.content); setTotalPages(userData.totalPages);
\* setTotalElements(userData.totalElements)
setFromResponse(resp) ==
    /\ users' = resp.content
    /\ totalPages' = resp.totalPages
    /\ totalElements' = resp.totalElements

\* loadUsers after its await resolved: the three setters; finally setLoading(false)
FetchResolved(i, resp) ==
    /\ ~effectPending
    /\ i \in 1..Len(pending)
    /\ setFromResponse(resp)
    /\ loading' = FALSE
    /\ pending' = RemoveAt(pending, i)
    /\ lastSettled' = [page |-> pending[i].page, outcome |-> "resolved"]
    /\ lastResponse' = resp
    /\ lastEvent' = "resolved"
    /\ UNCHANGED <<error, currentPage, fetchCount, effectPending, pageChanges,
                   retries, pageMoves, items, rendered, selection, client, mock>>

\* Mutant of ErrorMessage: the rejection's own message is never used.
ErrorMessageAlwaysFallback(rej) == FallbackMessage

\* Mutant of ErrorMessage: the stored message is the empty string.
ErrorMessageBlank(rej) == ""

\* err instanceof Error ? err.message : 'Failed to load users'
ErrorMessage(rej) == IF rej.isError THEN rej.message ELSE FallbackMessage

\* Mutant of FetchRejected: the finally block with setLoading(false) is missing.
FetchRejectedKeepsLoading(i, rej) ==
    /\ ~effectPending
    /\ i \in 1..Len(pending)
    /\ error' = ErrorMessage(rej)
    /\ pending' = RemoveAt(pending, i)
    /\ lastSettled' = [page |-> pending[i].page, outcome |-> "rejected"]
    /\ lastEvent' = "rejected"
    /\ UNCHANGED <<users, loading, currentPage, totalPages, totalElements,
                   fetchCount, effectPending, pageChanges, retries, lastResponse,
                   pageMoves, items, rendered, selection, client, mock>>

\* Mutant of FetchRejected: the catch block also empties the list, setUsers([]).
FetchRejectedClearsUsers(i, rej) ==
    /\ ~effectPending
    /\ i \in 1..Len(pending)
    /\ error' = ErrorMessage(rej)
    /\ users' = << >>
    /\ loading' = FALSE
    /\ pending' = RemoveAt(pending, i)
    /\ lastSettled' = [page |-> pending[i].page, outcome |-> "rejected"]
    /\ lastEvent' = "rejected"
    /\ UNCHANGED <<currentPage, totalPages, totalElements, fetchCount,
                   effectPending, pageChanges, retries, lastResponse, pageMoves,
                   items, rendered, selection, client, mock>>

\* loadUsers after its await rejected: setError(...); finally setLoading(false)
FetchRejected(i, rej) ==
    /\ ~effectPending
    /\ i \in 1..Len(pending)
    /\ error' = ErrorMessage(rej)
    /\ loading' = FALSE
    /\ pending' = RemoveAt(pending, i)
    /\ lastSettled' = [page |-> pending[i].page, outcome |-> "rejected"]
    /\ lastEvent' = "rejected"
    /\ UNCHANGED <<users, currentPage, totalPages, totalElements, fetchCount,
                   effectPending, pageChanges, retries, lastResponse, pageMoves,
                   items, rendered, selection, client, mock>>

\* Mutant of RetryPage: retry passes the 1-based label of the current page.
RetryPageLabel == currentPage + 1

\* handleRetry: loadUsers(currentPage)
RetryPage == currentPage

\* <button onClick={handleRetry}>Try Again</button> in the Error return
ClickRetry ==
    /\ ~effectPending
    /\ View = "Error"
    /\ fetchCount < MaxFetches
    /\ loadUsersStart(RetryPage)
    /\ retries' = retries + 1
    /\ lastEvent' = "retry"
    /\ UNCHANGED <<users, currentPage, totalPages, totalElements, effectPending,
                   pageChanges, lastSettled, lastResponse, pageMoves, items,
                   rendered, selection, client, mock>>

\* onClick of a numbered PaginationLink: handlePageChange(i)
ClickPage(p) ==
    /\ ~effectPending
    /\ PaginationShown
    /\ p \in RenderedPages
    /\ WithinBounds
    /\ handlePageChange(p)
    /\ lastEvent' = "page"
    /\ UNCHANGED <<items, rendered, selection, client, mock>>

\* Mutant of PreviousAccepted: the test is currentPage >= 0.
PreviousAcceptedAlways == currentPage >= 0

\* if (currentPage > 0) in the onClick of PaginationPrevious
PreviousAccepted == currentPage > 0

\* onClick of PaginationPrevious
ClickPrevious ==
    /\ ~effectPending
    /\ PaginationShown
    /\ lastEvent' = "previous"
    /\ IF PreviousAccepted
       THEN WithinBounds /\ handlePageChange(currentPage - 1)
       ELSE UNCHANGED <<viewState, pending, fetchCount, effectPending, history>>
    /\ UNCHANGED <<items, rendered, selection, client, mock>>

\* className of PaginationPrevious: currentPage === 0 ? disabled : ''
PreviousStyledDisabled == currentPage = 0

\* className of PaginationNext: currentPage === totalPages - 1 ? disabled : ''
NextStyledDisabled == currentPage = totalPages - 1

\* Mutant of NextAccepted: the test is currentPage < totalPages.
NextAcceptedThroughLast == currentPage < totalPages

\* if (currentPage < totalPages - 1) in the onClick of PaginationNext
NextAccepted == currentPage < totalPages - 1

\* onClick of PaginationNext
ClickNext ==
    /\ ~effectPending
    /\ PaginationShown
    /\ lastEvent' = "next"
    /\ IF NextAccepted
       THEN WithinBounds /\ handlePageChange(currentPage + 1)
       ELSE UNCHANGED <<viewState, pending, fetchCount, effectPending, history>>
    /\ UNCHANGED <<items, rendered, selection, client, mock>>

Next ==
    \/ UseEffect
    \/ \E i \in 1..Len(pending), resp \in Responses : FetchResolved(i, resp)
    \/ \E i \in 1..Len(pending), rej \in Rejections : FetchRejected(i, rej)
    \/ ClickRetry
    \/ \E p \in 0..MaxTotalPages : ClickPage(p)
    \/ ClickPrevious
    \/ ClickNext

Spec == Init /\ [][Next]_vars

\* The responses of the fair specification: the fields no branch of the view
\* depends on (page is never read, totalElements is only displayed) are fixed.
LiveResponses == { r \in Responses : r.page = 0 /\ r.totalElements = 0 }

\* The outstanding fetchUsers promise settles, one way or the other: it
\* resolves with some response (the one lastResponse then holds) or rejects.
FetchSettles ==
    \E i \in 1..Len(pending) :
        \/ lastResponse' \in LiveResponses /\ FetchResolved(i, lastResponse')
        \/ \E rej \in Rejections : FetchRejected(i, rej)

LiveNext ==
    \/ UseEffect
    \/ FetchSettles
    \/ ClickRetry
    \/ \E p \in 0..MaxTotalPages : ClickPage(p)
    \/ ClickPrevious
    \/ ClickNext

\* The view with its scheduling: the effect of a committed render runs, and
\* every issued fetch settles.
LiveSpec ==
    Init /\ [][LiveNext]_vars /\ WF_vars(UseEffect) /\ WF_vars(FetchSettles)

-----------------------------------------------------------------------------
(* User selection: the list entries and the onUserSelect pass-through *)

\* The values of the selectedUserId prop: null, a listed user, another user.
SelectedIds == { Null, "USER001", "USER005", "USER009" }

\* Mutant of UserEntry: any non-null selectedUserId highlights the entry.
UserEntryAnySelection(u, sel) == [userId |-> u, highlighted |-> (sel # Null)]

\* className: selectedUserId === user.userId ? highlighted : plain
UserEntry(u, sel) == [userId |-> u, highlighted |-> (sel = u)]

\* {users.map((user) => <button ...>)} in the Populated return
UserEntries(sel) ==
    IF View = "Populated"
    THEN [k \in 1..Len(users) |-> UserEntry(users[k], sel)]
    ELSE << >>

\* A view between two tasks of the event loop, with any selectedUserId prop.
SelectInit ==
    /\ users \in Contents
    /\ loading \in BOOLEAN
    /\ error = Null
    /\ currentPage \in 0..MaxResponsePage
    /\ totalPages \in 0..(MaxResponsePage + 1)
    /\ totalElements \in 0..MaxTotalElements
    /\ pending = IF loading THEN << FetchRequest(currentPage) >> ELSE << >>
    /\ fetchCount = 1
    /\ effectPending = FALSE
    /\ lastEvent = IF loading THEN "effect" ELSE "resolved"
    /\ pageChanges = 0
    /\ retries = 0
    /\ lastSettled = IF loading THEN [page |-> -1, outcome |-> "none"]
                     ELSE [page |-> currentPage, outcome |-> "resolved"]
    /\ lastResponse = NoResponse
    /\ selectedUserId \in SelectedIds
    /\ selectCalls = << >>
    /\ entries = << >>
    /\ pageMoves = 0
    /\ clientCall = NoCall
    /\ requests = << >>
    /\ callResult = NoResult
    /\ consoleLines = << >>
    /\ mockPage = 0
    /\ mockSize = pageSize
    /\ mockResult = NoPage
    /\ collected = << >>
    /\ items = << >>
    /\ rendered = FALSE

\* The render of the user list with the current props.
RenderEntries ==
    /\ ~rendered
    /\ entries' = UserEntries(selectedUserId)
    /\ rendered' = TRUE
    /\ UNCHANGED <<viewState, pending, fetchCount, effectPending, lastEvent, history,
                   selectedUserId, selectCalls, items, client, mock>>

\* Mutant of onUserSelectArgument: the callback gets the first user's id.
onUserSelectArgumentFirst(k) == users[1]

\* onClick={() => onUserSelect(user.userId)} of the k-th entry
onUserSelectArgument(k) == users[k]

\* A click on the k-th user entry.
ClickUser(k) ==
    /\ rendered
    /\ View = "Populated"
    /\ k \in 1..Len(users)
    /\ Len(selectCalls) < MaxSelects
    /\ selectCalls' = Append(selectCalls, onUserSelectArgument(k))
    /\ lastEvent' = "select"
    /\ UNCHANGED <<viewState, pending, fetchCount, effectPending, history,
                   selectedUserId, entries, items, rendered, client, mock>>

\* The parent passes another selectedUserId; the list is rendered again.
SetSelectedUserId(id) ==
    /\ rendered
    /\ selectedUserId' = id
    /\ entries' = UserEntries(id)
    /\ lastEvent' = "props"
    /\ UNCHANGED <<viewState, pending, fetchCount, effectPending, history,
                   selectCalls, items, rendered, client, mock>>

SelectNext ==
    \/ RenderEntries
    \/ \E k \in 1..2 : ClickUser(k)
    \/ \E id \in SelectedIds : SetSelectedUserId(id)

SelectSpec == SelectInit /\ [][SelectNext]_vars

-----------------------------------------------------------------------------
(* The data client: fetchUsers and fetchAccountsByUserId over HTTP *)

\* The userId arguments of fetchAccountsByUserId.
UserIds == { "USER001", "USER005" }

\* The BankAccount[] bodies a response may carry (by accountId).
AccountLists == { << >>, << "ACC001" >>, << "ACC001", "ACC002" >> }

\* Why a request fails: the 10 s timeout, no connection, a non-2xx status.
FailureCauses == { "timeout", "network", "status404", "status500" }

\* api.get<User[]>('/api/v1/users'): no config argument, so no query parameter
UsersRequest(page, size) ==
    [method |-> "GET", url |-> << "/api/v1/users" >>, params |-> {}]

\* api.get<BankAccount[]>(`/api/v1/accounts/user/${userId}`)
AccountsRequest(userId) ==
    [method |-> "GET", url |-> << "/api/v1/accounts/user/", userId >>, params |-> {}]

\* console.error('Error fetching users:', error) / ('Error fetching accounts:', error)
FailureLine(fn, cause) ==
    << (IF fn = "fetchUsers" THEN "Error fetching users:"
        ELSE "Error fetching accounts:"), cause >>

\* Mutant of FailureMessage: the thrown error carries the cause.
FailureMessageWithCause(fn, cause) == cause

\* throw new Error('Failed to fetch users') / new Error('Failed to fetch accounts')
FailureMessage(fn, cause) ==
    IF fn = "fetchUsers" THEN "Failed to fetch users" ELSE "Failed to fetch accounts"

\* fetchUsers called as the view calls it, fetchUsers(page, size), up to its await
CallFetchUsers(page, size) ==
    /\ clientCall = NoCall
    /\ Len(requests) < MaxCalls
    /\ clientCall' = [fn |-> "fetchUsers", page |-> page, size |-> size,
                      userId |-> Null]
    /\ requests' = Append(requests, UsersRequest(page, size))
    /\ lastEvent' = "call"
    /\ UNCHANGED <<callResult, consoleLines>>
    /\ UNCHANGED <<viewState, pending, fetchCount, effectPending, history,
                   selection, mock, items, rendered>>

\* fetchAccountsByUserId(userId) up to its await
CallFetchAccounts(userId) ==
    /\ clientCall = NoCall
    /\ Len(requests) < MaxCalls
    /\ clientCall' = [fn |-> "fetchAccountsByUserId", page |-> -1, size |-> -1,
                      userId |-> userId]
    /\ requests' = Append(requests, AccountsRequest(userId))
    /\ lastEvent' = "call"
    /\ UNCHANGED <<callResult, consoleLines>>
    /\ UNCHANGED <<viewState, pending, fetchCount, effectPending, history,
                   selection, mock, items, rendered>>

\* try { const response = await api.get(...); return response.data; }
\* in the function fn, for a 2xx response with body data
ResponseSucceeds(fn, data) ==
    /\ clientCall.fn = fn
    /\ callResult' = [outcome |-> "returned", fn |-> clientCall.fn,
                      value |-> data, message |-> Null]
    /\ clientCall' = NoCall
    /\ lastEvent' = "returned"
    /\ UNCHANGED <<requests, consoleLines>>
    /\ UNCHANGED <<viewState, pending, fetchCount, effectPending, history,
                   selection, mock, items, rendered>>

\* catch (error) { console.error(..., error); throw new Error(...); }
ResponseFails(cause) ==
    /\ clientCall # NoCall
    /\ consoleLines' = Append(consoleLines, FailureLine(clientCall.fn, cause))
    /\ callResult' = [outcome |-> "threw", fn |-> clientCall.fn, value |-> << >>,
                      message |-> FailureMessage(clientCall.fn, cause)]
    /\ clientCall' = NoCall
    /\ lastEvent' = "threw"
    /\ UNCHANGED requests
    /\ UNCHANGED <<viewState, pending, fetchCount, effectPending, history,
                   selection, mock, items, rendered>>

ClientNext ==
    \/ \E page \in 0..MaxResponsePage : CallFetchUsers(page, pageSize)
    \/ \E userId \in UserIds : CallFetchAccounts(userId)
    \/ \E data \in Responses : ResponseSucceeds("fetchUsers", data)
    \/ \E data \in AccountLists : ResponseSucceeds("fetchAccountsByUserId", data)
    \/ \E cause \in FailureCauses : ResponseFails(cause)

\* The data client on its own: the view takes no step.
ClientSpec == Init /\ [][ClientNext]_vars

-----------------------------------------------------------------------------
(* The mock data of the test suites: 50 users cut into pages *)

MockUserCount == 50

\* createMockUser(userId): ({ userId })
createMockUser(userId) == [userId |-> userId]

\* Array.from({ length: 50 }, (_, i) => createMockUser(`user-${i + 1}`))
mockUsers == [k \in 1..MockUserCount |-> createMockUser(<< "user-", k >>)]

\* Math.ceil(a / b) for a >= 0 and b > 0
Ceil(a, b) == (a + b - 1) \div b

\* array.slice(start, end) for 0 <= start: the elements at the 0-based
\* indices start..end-1 that exist, none when end <= start
Slice(s, start, end) ==
    [k \in 1..Max(0, Min(end, Len(s)) - start) |-> s[start + k]]

\* Mutant of createMockPagedResponse: totalPages is rounded down.
createMockPagedResponseFloor(content, page, size, total) ==
    LET pages == total \div size
    IN  [content |-> content, page |-> page, size |-> size,
         totalElements |-> total, totalPages |-> pages,
         first |-> (page = 0), last |-> (page = pages - 1)]

createMockPagedResponse(content, page, size, total) ==
    LET pages == Ceil(total, size)
    IN  [content |-> content, page |-> page, size |-> size,
         totalElements |-> total, totalPages |-> pages,
         first |-> (page = 0), last |-> (page = pages - 1)]

getMockUsersPage(page, size) ==
    LET startIndex == page * size
        endIndex == Min(startIndex + size, Len(mockUsers))
        pageUsers == Slice(mockUsers, startIndex, endIndex)
    IN  createMockPagedResponse(pageUsers, page, size, Len(mockUsers))

\* The pages are asked for in order, from page 0, with one size > 0.
MockInit ==
    /\ mockPage = 0
    /\ mockSize \in 1..MaxMockSize
    /\ mockResult = NoPage
    /\ collected = << >>
    /\ users = << >>
    /\ loading = TRUE
    /\ error = Null
    /\ currentPage = 0
    /\ totalPages = 0
    /\ totalElements = 0
    /\ pending = << >>
    /\ fetchCount = 0
    /\ effectPending = TRUE
    /\ lastEvent = "mount"
    /\ pageChanges = 0
    /\ retries = 0
    /\ lastSettled = [page |-> -1, outcome |-> "none"]
    /\ lastResponse = NoResponse
    /\ pageMoves = 0
    /\ selectedUserId = Null
    /\ selectCalls = << >>
    /\ entries = << >>
    /\ clientCall = NoCall
    /\ requests = << >>
    /\ callResult = NoResult
    /\ consoleLines = << >>
    /\ items = << >>
    /\ rendered = FALSE

\* getMockUsersPage(mockPage, mockSize); the next call asks for the next page
CallGetMockUsersPage ==
    /\ mockPage <= MaxMockPage
    /\ mockResult' = getMockUsersPage(mockPage, mockSize)
    /\ collected' = collected \o mockResult'.content
    /\ mockPage' = mockPage + 1
    /\ lastEvent' = "mock"
    /\ UNCHANGED mockSize
    /\ UNCHANGED <<viewState, pending, fetchCount, effectPending, history,
                   selection, client, items, rendered>>

MockNext == CallGetMockUsersPage

MockSpec == MockInit /\ [][MockNext]_vars

-----------------------------------------------------------------------------
(* Properties of renderPaginationItems, checked under PageSpec *)

IsPage(it) == it.kind = "page"

IsEllipsis(it) == it.kind = "ellipsis"

\* Positions of items that are controls for page p.
ControlsFor(p) == { k \in 1..Len(items) : IsPage(items[k]) /\ items[k].page = p }

ActiveControls == { k \in 1..Len(items) : IsPage(items[k]) /\ items[k].isActive }

EllipsisPositions == { k \in 1..Len(items) : IsEllipsis(items[k]) }

\* Pages with a control strictly between the first and the last item.
MiddlePages ==
    { items[k].page : k \in { j \in 2..(Len(items) - 1) : IsPage(items[j]) } }

ValidInput == 0 <= currentPage /\ currentPage < totalPages

\* C1: for n >= 2 and 0 <= c < n the controls contain page 0 and page n-1,
\* each exactly once, page 0 first and page n-1 last.
C1_FirstAndLastPage ==
    (rendered /\ totalPages >= 2 /\ ValidInput) =>
        /\ Len(items) >= 2
        /\ ControlsFor(0) = {1}
        /\ ControlsFor(totalPages - 1) = {Len(items)}

C1_Witness ==
    /\ rendered /\ totalPages = 6 /\ currentPage = 3
    /\ ControlsFor(0) = {1}
    /\ ControlsFor(5) = {Len(items)}

\* C2: for n >= 1 and 0 <= c < n exactly one control is active, the one for
\* page c; a control for page i is active iff i = c.
C2_ExactlyOneActive ==
    (rendered /\ totalPages >= 1 /\ ValidInput) =>
        /\ Cardinality(ActiveControls) = 1
        /\ ActiveControls = ControlsFor(currentPage)
        /\ \A k \in 1..Len(items) :
               IsPage(items[k]) => (items[k].isActive <=> items[k].page = currentPage)

C2_Witness ==
    /\ rendered /\ totalPages = 7 /\ currentPage = 3
    /\ Cardinality(ActiveControls) = 1
    /\ \E k \in ActiveControls : items[k].page = 3 /\ k > 1 /\ k < Len(items)

\* C3: for n > 5 and 0 <= c < n the controls between the first-page and the
\* last-page control are exactly the pages i with max(1, c-1) <= i <=
\* min(n-1, c+1) and 0 < i < n-1.
C3_WindowIsInclusive ==
    (rendered /\ totalPages > maxVisiblePages /\ ValidInput) =>
        MiddlePages =
            { i \in 1..(totalPages - 2) :
                  /\ Max(1, currentPage - 1) <= i
                  /\ i <= Min(totalPages - 1, currentPage + 1) }

\* C4: at most two ellipsis markers; none when n <= 5; when n > 5 the leading
\* marker is present (directly after the page-0 control) iff c > 2 and the
\* trailing marker is present (directly before the page n-1 control) iff
\* c < n - 3.
LeadingPositions ==
    { k \in EllipsisPositions : items[k].key = "ellipsis1" }

TrailingPositions ==
    { k \in EllipsisPositions : items[k].key = "ellipsis2" }

C4_Ellipses ==
    (rendered /\ ValidInput) =>
        /\ Cardinality(EllipsisPositions) <= 2
        /\ EllipsisPositions = LeadingPositions \cup TrailingPositions
        /\ totalPages <= maxVisiblePages => EllipsisPositions = {}
        /\ totalPages > maxVisiblePages =>
              /\ LeadingPositions = (IF currentPage > 2 THEN {2} ELSE {})
              /\ TrailingPositions =
                     (IF currentPage < totalPages - 3 THEN {Len(items) - 1} ELSE {})
              /\ ControlsFor(0) = {1}
              /\ ControlsFor(totalPages - 1) = {Len(items)}

C4_Witness ==
    /\ rendered /\ totalPages = 7 /\ currentPage = 3
    /\ LeadingPositions = {2}
    /\ TrailingPositions = {Len(items) - 1}
    /\ Cardinality(EllipsisPositions) = 2

\* C5: for 0 <= n <= 5 there is exactly one control per page 0..n-1, in
\* increasing order, and no ellipsis marker, whatever the current page is.
C5_SmallPageCounts ==
    (rendered /\ totalPages <= maxVisiblePages) =>
        /\ Len(items) = totalPages
        /\ \A k \in 1..Len(items) :
               /\ IsPage(items[k])
               /\ items[k].page = k - 1
               /\ items[k].label = k

C5_Witness ==
    /\ rendered /\ totalPages = 3 /\ currentPage = 2
    /\ Len(items) = 3
    /\ items[3].page = 2 /\ items[3].isActive

\* Positions of the numbered page controls.
PagePositions == { k \in 1..Len(items) : IsPage(items[k]) }

\* Two page controls with no other page control between them.
Neighbours(j, k) ==
    /\ j \in PagePositions /\ k \in PagePositions /\ j < k
    /\ \A m \in PagePositions : ~(j < m /\ m < k)

\* C29: two neighbouring page controls are separated by an ellipsis marker
\* iff at least one page index lies strictly between them, for all n >= 1
\* and 0 <= c < n.
C29_EllipsisIffPagesSkipped ==
    (rendered /\ totalPages >= 1 /\ ValidInput) =>
        \A j, k \in 1..Len(items) :
            Neighbours(j, k) =>
                ((\E m \in EllipsisPositions : j < m /\ m < k)
                     <=> items[k].page - items[j].page > 1)

\* C30: for all n >= 0 and 0 <= c < n the page controls are in strictly
\* increasing page order, no page is rendered twice, and every rendered page
\* index lies in 0..n-1.
C30_PagesIncreasingAndInRange ==
    (rendered /\ ValidInput) =>
        /\ \A j, k \in PagePositions : j < k => items[j].page < items[k].page
        /\ \A k \in PagePositions : items[k].page \in 0..(totalPages - 1)
        /\ \A q \in 0..(totalPages - 1) : Cardinality(ControlsFor(q)) <= 1

C30_Witness ==
    /\ rendered /\ totalPages = 7 /\ currentPage = 3
    /\ Len(items) = 6
    /\ [k \in 1..Len(items) |-> IF IsPage(items[k]) THEN items[k].page ELSE -1]
           = << 0, -1, 2, 3, -1, 6 >>

-----------------------------------------------------------------------------
(* Properties of the view controller, checked under Spec *)

NoUserAction == pageChanges = 0 /\ retries = 0

\* C6: on mount the view is Loading (loading, no error, no users, page 0) and
\* exactly one fetch is issued, for (0, 20); no other fetch is issued until a
\* page change or a retry occurs.
C6_MountFetch ==
    NoUserAction =>
        /\ currentPage = 0
        /\ fetchCount <= 1
        /\ lastEvent = "mount" =>
              /\ View = "Loading" /\ loading /\ error = Null /\ users = << >>
              /\ effectPending /\ fetchCount = 0 /\ pending = << >>
        /\ lastEvent = "effect" =>
              /\ View = "Loading" /\ loading /\ error = Null /\ users = << >>
              /\ fetchCount = 1
              /\ pending = << [page |-> 0, size |-> 20] >>

C6_Witness ==
    /\ NoUserAction /\ lastEvent = "effect"
    /\ fetchCount = 1
    /\ pending = << [page |-> 0, size |-> 20] >>

\* A page-change request for page p made from the Populated state.
PageChangeTo(p) ==
    /\ View = "Populated"
    /\ \/ ClickPage(p)
       \/ ClickPrevious /\ currentPage > 0 /\ p = currentPage - 1
       \/ ClickNext /\ currentPage < totalPages - 1 /\ p = currentPage + 1

\* The request sets currentPage to p and schedules the fetch-issuing effect.
PageChangeTaken(p) ==
    /\ currentPage' = p
    /\ effectPending'
    /\ fetchCount' = fetchCount /\ pending' = pending

\* The scheduled effect issues exactly one fetch, for (currentPage, 20), and
\* the view is Loading.
EffectIssuesOneFetch ==
    effectPending =>
        /\ fetchCount' = fetchCount + 1
        /\ pending' = Append(pending, [page |-> currentPage, size |-> 20])
        /\ currentPage' = currentPage
        /\ View' = "Loading"

LoadingUntilSettled == pending # << >> => View = "Loading"

\* C7 (as stated): every page-change request from the Populated state, through
\* a numbered control for page p, Previous (currentPage > 0) or Next
\* (currentPage < totalPages - 1), sets currentPage to p, issues exactly one
\* new fetch for (p, 20) and makes the view Loading until that fetch settles.
C7_EveryPageChangeFetches ==
    /\ [][\A p \in 0..MaxTotalPages : PageChangeTo(p) => PageChangeTaken(p)]_vars
    /\ [][EffectIssuesOneFetch]_vars
    /\ []LoadingUntilSettled

\* C7 (amended): the same for every request whose page p differs from
\* currentPage; a click on the numbered control of the current page changes
\* nothing in the view state and issues no fetch.
C7_PageChangeToOtherPageFetches ==
    /\ [][\A p \in 0..MaxTotalPages :
              PageChangeTo(p) =>
                  IF p # currentPage
                  THEN PageChangeTaken(p)
                  ELSE /\ UNCHANGED viewState
                       /\ ~effectPending'
                       /\ fetchCount' = fetchCount /\ pending' = pending]_vars
    /\ [][EffectIssuesOneFetch]_vars
    /\ []LoadingUntilSettled

C7_Witness ==
    /\ lastEvent = "effect" /\ pageChanges = 1
    /\ currentPage = 1 /\ fetchCount = 2
    /\ pending = << [page |-> 1, size |-> 20] >>
    /\ View = "Loading"

\* C8: clicking Next when currentPage = totalPages - 1 issues no fetch and
\* leaves the whole view state unchanged.
C8_NextOnLastPageIsNoOp ==
    [][(ClickNext /\ currentPage = totalPages - 1) =>
          /\ UNCHANGED viewState
          /\ fetchCount' = fetchCount /\ pending' = pending
          /\ ~effectPending']_vars

C8_Witness ==
    /\ lastEvent = "next" /\ ~effectPending
    /\ PaginationShown
    /\ currentPage = totalPages - 1 /\ currentPage = 2

\* C9: clicking Previous when currentPage = 0 issues no fetch (the fetch count
\* keeps its value) and leaves the whole view state unchanged.
C9_PreviousOnFirstPageIsNoOp ==
    [][(ClickPrevious /\ currentPage = 0) =>
          /\ UNCHANGED viewState
          /\ fetchCount' = fetchCount /\ pending' = pending
          /\ ~effectPending']_vars

C9_Witness ==
    /\ lastEvent = "previous" /\ ~effectPending
    /\ PaginationShown
    /\ currentPage = 0 /\ fetchCount = 1

\* C10: after a rejected fetch, retry takes the view from Error to Loading and
\* issues exactly one new fetch, for the page of the failed fetch and size 20;
\* when that fetch resolves with non-empty content the view is Populated; a
\* rejection on mount followed by one successful retry makes 2 fetch calls.
C10_RetryRefetchesSamePage ==
    /\ [][ClickRetry =>
              /\ View = "Error" /\ lastSettled.outcome = "rejected"
              /\ View' = "Loading"
              /\ fetchCount' = fetchCount + 1
              /\ pending' = << [page |-> lastSettled.page, size |-> 20] >>
              /\ currentPage' = currentPage]_vars
    /\ [][(lastEvent = "retry" /\ lastEvent' = "resolved" /\ users' # << >>) =>
              View' = "Populated"]_vars
    /\ []((pageChanges = 0 /\ retries = 1) => fetchCount = 2)

C10_Witness ==
    /\ pageChanges = 0 /\ retries = 1
    /\ lastSettled = [page |-> 0, outcome |-> "resolved"]
    /\ View = "Populated" /\ fetchCount = 2

\* Some pagination control can be clicked.
PaginationClickEnabled ==
    \/ ENABLED ClickPrevious
    \/ ENABLED ClickNext
    \/ ENABLED (\E p \in 0..MaxTotalPages : ClickPage(p))

\* A step in which a fetch resolves; lastResponse' is the response it carries.
FetchResolvedStep == pending # << >> /\ lastEvent' = "resolved"

\* C11: when the outstanding fetch rejects, the view leaves Loading and is in
\* the Error state with the retry control available; the stored message is
\* the rejection's own message for an Error value and 'Failed to load users'
\* otherwise.
C11_RejectionShowsError ==
    /\ [][\A i \in 1..Len(pending), rej \in Rejections :
              FetchRejected(i, rej) =>
                  /\ View = "Loading"
                  /\ View' = "Error"
                  /\ error' = (IF rej.isError THEN rej.message
                               ELSE "Failed to load users")]_vars
    /\ []((View = "Error" /\ fetchCount < MaxFetches) => ENABLED ClickRetry)

C11_Witness ==
    /\ lastEvent = "rejected" /\ View = "Error"
    /\ error = "Failed to fetch users"
    /\ ENABLED ClickRetry

\* C12: when the outstanding fetch resolves, users, totalPages and
\* totalElements are the response's content, totalPages and totalElements;
\* the view is Populated for non-empty content and Empty for empty content;
\* the Populated view shows the response's totalElements as the user count.
C12_ResolveSetsState ==
    [][FetchResolvedStep =>
           /\ users' = lastResponse'.content
           /\ totalPages' = lastResponse'.totalPages
           /\ totalElements' = lastResponse'.totalElements
           /\ View' = (IF Len(lastResponse'.content) > 0 THEN "Populated" ELSE "Empty")
           /\ TotalUsersShown' = lastResponse'.totalElements]_vars

C12_Witness ==
    /\ lastEvent = "resolved" /\ View = "Populated"
    /\ users = << "USER001", "USER005" >>
    /\ totalPages = 3 /\ totalElements = 1 /\ TotalUsersShown = 1

\* C13: the pagination controls (Previous, page numbers, Next) are rendered
\* iff the view is Populated and totalPages > 1; with totalPages <= 1 none is
\* rendered and no page-change request can occur.
C13_PaginationIffPopulatedMultiPage ==
    ~effectPending =>
        /\ PaginationClickEnabled => (View = "Populated" /\ totalPages > 1)
        /\ (View = "Populated" /\ totalPages > 1) =>
               /\ ENABLED ClickPrevious \/ (PreviousAccepted /\ ~WithinBounds)
               /\ ENABLED ClickNext \/ (NextAccepted /\ ~WithinBounds)
               /\ \A p \in RenderedPages : ENABLED ClickPage(p) \/ ~WithinBounds
               /\ {0, totalPages - 1} \subseteq RenderedPages
        /\ totalPages <= 1 => ~PaginationClickEnabled

C13_Witness ==
    /\ lastEvent = "resolved" /\ View = "Populated"
    /\ totalPages = 1 /\ ~PaginationClickEnabled

\* C14: a resolved fetch with empty content puts the view in the Empty state,
\* and in the Empty state no pagination control is rendered, whatever
\* totalPages the response reported.
C14_EmptyHasNoPagination ==
    /\ [][(FetchResolvedStep /\ lastResponse'.content = << >>) =>
              View' = "Empty"]_vars
    /\ [](View = "Empty" => (~PaginationShown /\ ~PaginationClickEnabled))

C14_Witness ==
    /\ lastEvent = "resolved" /\ View = "Empty"
    /\ lastResponse.totalElements = 0
    /\ totalPages = 3 /\ ~PaginationClickEnabled

\* C15: when the response resolved last reports the last page (page =
\* totalPages - 1), the Next control is inert and a click on it issues no
\* fetch, also when that response is the one received on mount.
C15_NextInertWhenResponseReportsLastPage ==
    (/\ PaginationShown /\ ~effectPending
     /\ lastResponse.page = lastResponse.totalPages - 1) => ~NextAccepted

\* C16: when the response resolved last reports page p > 0, Previous is
\* enabled and a click on it requests page p - 1.
C16_PreviousEnabledWhenResponseReportsLaterPage ==
    (/\ PaginationShown /\ ~effectPending
     /\ lastResponse.page > 0) =>
        (PreviousAccepted /\ currentPage - 1 = lastResponse.page - 1)

PopulatedResponse ==
    [content |-> << "USER001" >>, page |-> 0, totalPages |-> 1, totalElements |-> 1]

\* C23: every failure is recoverable: in every Error state the retry action
\* is enabled; when the fetch issued by a retry resolves, the view leaves
\* Error and is Populated or Empty; after any number of rejections a fetch
\* that resolves with users makes the view Populated.
C23_FailureIsRecoverable ==
    /\ View = "Error" =>
           /\ lastSettled.outcome = "rejected"
           /\ fetchCount < MaxFetches => ENABLED ClickRetry
    /\ lastEvent = "retry" =>
           /\ View = "Loading" /\ Len(pending) = 1
           /\ ENABLED (FetchResolved(1, PopulatedResponse) /\ View' = "Populated")
    /\ lastEvent = "resolved" => (View \in { "Populated", "Empty" } /\ error = Null)

C23_Witness ==
    /\ retries = 2 /\ pageChanges = 0
    /\ lastEvent = "resolved" /\ View = "Populated" /\ error = Null

\* C25: whenever the view is Empty after a fetch of a result with
\* totalPages > 1, some page-change request is enabled (and makes the view
\* re-enter Loading with a fetch for the new page).
C25_EmptyCanBeLeftByPageChange ==
    (View = "Empty" /\ ~effectPending /\ totalPages > 1 /\ WithinBounds) =>
        PaginationClickEnabled

PageControls ==
    LET its == renderPaginationItems(currentPage, totalPages)
    IN  { its[k] : k \in { j \in 1..Len(its) : its[j].kind = "page" } }

\* C27: every numbered page control shows the label i + 1 for the page i it
\* stands for, and a click on it requests exactly page i, which the effect
\* fetches with size 20; in the branch n <= 5 and in the branch n > 5.
C27_ControlLabelledForItsPage ==
    /\ [](PaginationShown => \A it \in PageControls : it.label = it.page + 1)
    /\ [][\A p \in 0..MaxTotalPages :
              ClickPage(p) =>
                  /\ \E it \in PageControls : it.page = p /\ it.label = p + 1
                  /\ currentPage' = p
                  /\ p # currentPage => effectPending']_vars
    /\ [][EffectIssuesOneFetch]_vars

C27_Witness ==
    /\ lastEvent = "effect" /\ pageChanges = 1
    /\ totalPages = 7 /\ currentPage = 6
    /\ pending = << [page |-> 6, size |-> 20] >>

\* C28: every accepted page change from page a to page b writes the log line
\* ('Changing page to:', b, 'from:', a), and every fetch triggered by mount or
\* by a change of currentPage to page p writes ('useEffect triggered, loading
\* page:', p).
C28_PageChangesAndEffectsAreLogged ==
    /\ lastEvent = "effect" =>
           /\ Len(consoleLines) >= 1
           /\ consoleLines[Len(consoleLines)] =
                  << "useEffect triggered, loading page:", currentPage >>
    /\ (lastEvent \in { "page", "previous", "next" } /\ effectPending) =>
           /\ Len(consoleLines) >= 1
           /\ \E a \in 0..MaxTotalPages :
                  consoleLines[Len(consoleLines)] =
                      << "Changing page to:", currentPage, "from:", a >>

\* The numbered controls of the rendered pagination that are marked active.
ActivePageControls == { it \in PageControls : it.isActive }

\* C31: after any sequence of mount, page-change clicks, retries and fetch
\* settles, whenever the pagination controls are displayed,
\* 0 <= currentPage <= totalPages - 1 holds, exactly one numbered control is
\* active, and Next is styled as disabled exactly when it is inert.
C31_CurrentPageWithinTotalPages ==
    (PaginationShown /\ ~effectPending) =>
        /\ 0 <= currentPage /\ currentPage <= totalPages - 1
        /\ Cardinality(ActivePageControls) = 1
        /\ NextStyledDisabled <=> ~NextAccepted

\* A step in which the outstanding fetch rejects.
FetchRejectedStep == pending # << >> /\ lastEvent' = "rejected"

\* C32: a rejected fetch changes only loading and error: users, totalPages,
\* totalElements and currentPage keep their values; after a rejected fetch
\* for a newly requested page p the retry targets p, and the users of the
\* previous page are never displayed as page p.
C32_RejectionKeepsViewData ==
    /\ [][FetchRejectedStep =>
              /\ UNCHANGED <<users, totalPages, totalElements, currentPage>>
              /\ pending[1].page = currentPage
              /\ ~loading' /\ error' # Null]_vars
    /\ [](lastEvent = "rejected" =>
              (View = "Error" /\ RetryPage = lastSettled.page))
    /\ [](lastEvent = "retry" =>
              pending = << [page |-> lastSettled.page, size |-> 20] >>)
    /\ [](lastSettled.outcome = "rejected" => View \in { "Error", "Loading" })

C32_Witness ==
    /\ lastEvent = "rejected" /\ View = "Error"
    /\ pageChanges = 1 /\ currentPage = 1
    /\ lastSettled = [page |-> 1, outcome |-> "rejected"]
    /\ users = << "USER001", "USER005" >> /\ totalPages = 2

\* C33: every fetch that resolves or rejects sets loading = false, so, every
\* issued fetch settling eventually, every Loading state is eventually
\* followed by Populated, Empty or Error.
C33_LoadingEnds ==
    /\ [][(FetchResolvedStep \/ FetchRejectedStep) => ~loading']_vars
    /\ (View = "Loading") ~> (View \in { "Populated", "Empty", "Error" })

C33_Witness ==
    /\ lastEvent = "rejected" /\ retries = 1 /\ pageChanges = 1
    /\ pending = << >> /\ ~loading /\ View = "Error"

\* C34: the displayed state is exactly one of Loading, Error, Empty and
\* Populated, chosen with the priority loading > error > empty > populated;
\* the stored error is cleared when a fetch starts; when no fetch is
\* outstanding, the view is in Error iff the fetch settled last rejected.
C34_FourStatesByPriority ==
    /\ View \in { "Loading", "Error", "Empty", "Populated" }
    /\ loading => View = "Loading"
    /\ (~loading /\ error # Null) => View = "Error"
    /\ (~loading /\ error = Null /\ users = << >>) => View = "Empty"
    /\ (~loading /\ error = Null /\ users # << >>) => View = "Populated"
    /\ lastEvent \in { "effect", "retry" } => (loading /\ error = Null)
    /\ pending # << >> => error = Null
    /\ pending = << >> => (View = "Error" <=> lastSettled.outcome = "rejected")

C34_Witness ==
    /\ lastEvent = "rejected" /\ pending = << >>
    /\ pageChanges = 0 /\ retries = 0
    /\ users = << >> /\ error = "Failed to load users"
    /\ View = "Error"

-----------------------------------------------------------------------------
(* Properties of the user selection, checked under SelectSpec *)

\* C17: a click on the entry of a displayed user u calls onUserSelect exactly
\* once, with u.userId, and changes nothing in the view state; the view keeps
\* no selection of its own.
C17_SelectionIsPassThrough ==
    [][\A k \in 1..2 :
           ClickUser(k) =>
               /\ selectCalls' = Append(selectCalls, users[k])
               /\ UNCHANGED viewState
               /\ UNCHANGED <<pending, fetchCount, effectPending>>
               /\ UNCHANGED <<selectedUserId, entries>>]_vars

C17_Witness ==
    /\ lastEvent = "select"
    /\ users = << "USER001", "USER005" >>
    /\ selectCalls = << "USER005" >>
    /\ selectedUserId = Null

\* C18: in the Populated state an entry is highlighted iff its userId equals
\* selectedUserId; every other entry is not, and with selectedUserId = null
\* no entry is highlighted.
C18_HighlightIffSelected ==
    (rendered /\ View = "Populated") =>
        /\ Len(entries) = Len(users)
        /\ \A k \in 1..Len(entries) :
               /\ entries[k].userId = users[k]
               /\ entries[k].highlighted <=> (users[k] = selectedUserId)
        /\ selectedUserId = Null => \A k \in 1..Len(entries) : ~entries[k].highlighted

C18_Witness ==
    /\ rendered /\ View = "Populated" /\ lastEvent = "props"
    /\ users = << "USER001", "USER005" >>
    /\ selectedUserId = "USER005"
    /\ ~entries[1].highlighted /\ entries[2].highlighted

-----------------------------------------------------------------------------
(* Properties of the data client, checked under ClientSpec *)

\* C21: fetchUsers(page, size) performs a single request GET /api/v1/users
\* carrying the requested page and size as query parameters, and returns the
\* PagedResponse<User> of the response.
C21_RequestCarriesPageAndSize ==
    /\ clientCall.fn = "fetchUsers" =>
           /\ Len(requests) >= 1
           /\ requests[Len(requests)] =
                  [method |-> "GET", url |-> << "/api/v1/users" >>,
                   params |-> { << "page", clientCall.page >>,
                                << "size", clientCall.size >> }]
    /\ (callResult.fn = "fetchUsers" /\ callResult.outcome = "returned") =>
           callResult.value \in Responses

\* C22: when the request of fetchUsers or fetchAccountsByUserId fails, for
\* whatever cause, the call writes one diagnostic line, fails with the generic
\* error of that function, whose message does not depend on the cause, and
\* sends no second request.
C22_FailureIsLoggedAndGeneric ==
    [][(clientCall # NoCall /\ lastEvent' = "threw") =>
           /\ Len(consoleLines') = Len(consoleLines) + 1
           /\ callResult'.outcome = "threw"
           /\ callResult'.message =
                  (IF clientCall.fn = "fetchUsers" THEN "Failed to fetch users"
                   ELSE "Failed to fetch accounts")
           /\ requests' = requests
           /\ clientCall' = NoCall]_vars

C22_Witness ==
    /\ lastEvent = "threw"
    /\ callResult.fn = "fetchAccountsByUserId"
    /\ callResult.message = "Failed to fetch accounts"
    /\ consoleLines = << << "Error fetching users:", "timeout" >>,
                         << "Error fetching accounts:", "status500" >> >>
    /\ Len(requests) = 2

-----------------------------------------------------------------------------
(* Properties of the mock data, checked under MockSpec *)

\* C24: with the 50 users and size 20, getMockUsersPage(p, 20) for p in 0..2
\* has totalPages = 3, first = (p = 0), last = (p = 2) and a content of
\* min(20, 50 - 20p) <= 20 users (10 on page 2), and the contents of pages
\* 0, 1, 2 concatenated are the 50 users in order, none repeated or missing.
C24_MockPagesPartitionUsers ==
    (lastEvent = "mock" /\ mockSize = 20 /\ mockResult.page \in 0..2) =>
        LET p == mockResult.page
        IN  /\ p = mockPage - 1
            /\ mockResult.size = 20
            /\ mockResult.totalElements = 50
            /\ mockResult.totalPages = 3
            /\ mockResult.first = (p = 0)
            /\ mockResult.last = (p = 2)
            /\ Len(mockResult.content) = Min(20, 50 - 20 * p)
            /\ Len(mockResult.content) <= mockResult.size
            /\ p = 2 =>
                   /\ Len(mockResult.content) = 10
                   /\ Len(collected) = 50
                   /\ \A k \in 1..50 : collected[k] = [userId |-> << "user-", k >>]

C24_Witness ==
    /\ lastEvent = "mock" /\ mockSize = 20 /\ mockResult.page = 2
    /\ mockResult.last /\ ~mockResult.first
    /\ Len(mockResult.content) = 10
    /\ mockResult.content[1] = [userId |-> << "user-", 41 >>]
    /\ Len(collected) = 50

====
